---- MODULE Spec2Model ----
(***************************************************************************)
(* A model of the platformapi-namespace command line client: the vault     *)
(* service account accumulator (types.rs), the TTL validator, the metadata  *)
(* merge (metadata.rs) and the create sub-command of main (main.rs).        *)
(*                                                                         *)
(* Strings the code inspects character by character (split, trim, prefix  *)
(* tests, the TTL regex, label tokens) are sequences of one-character       *)
(* strings; strings the code only passes along are TLA+ strings.  An        *)
(* Option<T> is a sequence of length at most one.                          *)
(***************************************************************************)
EXTENDS Integers, Sequences, FiniteSets, TLC

VARIABLES pc, args, envv, name, conn, labels, annotations, idx, vsas, extra,
          payload, wire, stdout, stderr, exit_code, http, ret, fed

vars == <<pc, args, envv, name, conn, labels, annotations, idx, vsas, extra,
          payload, wire, stdout, stderr, exit_code, http, ret, fed>>

\* ------------------------------------------------------------------ bounds
MaxAdditions == 2
MaxExtends == 2
MaxIterLen == 2
MaxTtlLen == 3
MaxLabelOpts == 2
MaxAnnoOpts == 2

\* ------------------------------------------------------- options, results
None == <<>>
Some(v) == <<v>>
IsSome(o) == o # <<>>
Unwrap(o) == o[1]

Ok(v) == [ok |-> TRUE, val |-> v]
Err(e) == [ok |-> FALSE, err |-> e]

Range(s) == {s[i] : i \in DOMAIN s}
SeqsUpTo(S, n) == UNION {[1..k -> S] : k \in 0..n}

\* ------------------------------------------------------ string primitives
\* str::starts_with
starts_with(s, p) == Len(s) >= Len(p) /\ SubSeq(s, 1, Len(p)) = p

\* The index of the first occurrence of character c in s, 0 if there is none.
find(s, c) == IF \E i \in DOMAIN s : s[i] = c
              THEN CHOOSE i \in DOMAIN s : s[i] = c /\ \A j \in 1..(i - 1) : s[j] # c
              ELSE 0

\* str::split(char): the pieces between the separators; "" splits to [""].
RECURSIVE split(_, _)
split(s, c) == LET i == find(s, c) IN
               IF i = 0 THEN <<s>>
               ELSE <<SubSeq(s, 1, i - 1)>> \o split(SubSeq(s, i + 1, Len(s)), c)

WhiteSpace == {" ", "\t", "\n"}

\* str::trim: leading and trailing whitespace removed.
RECURSIVE trim_start(_)
trim_start(s) == IF s # <<>> /\ Head(s) \in WhiteSpace THEN trim_start(Tail(s)) ELSE s
RECURSIVE trim_end(_)
trim_end(s) == IF s # <<>> /\ s[Len(s)] \in WhiteSpace
               THEN trim_end(SubSeq(s, 1, Len(s) - 1)) ELSE s
trim(s) == trim_end(trim_start(s))

\* [String]::join(sep)
RECURSIVE join(_, _)
join(list, sep) == IF list = <<>> THEN <<>>
                   ELSE IF Len(list) = 1 THEN list[1]
                   ELSE join(SubSeq(list, 1, Len(list) - 1), sep) \o sep \o list[Len(list)]

S_default == <<"d", "e", "f", "a", "u", "l", "t">>
S_default_comma == <<"d", "e", "f", "a", "u", "l", "t", ",">>
S_comma == <<",">>

\* ------------------------------------------------ types.rs: VaultServiceAccounts
default == [include_default |-> TRUE, service_accounts |-> <<>>]
new == default
new_no_default == [include_default |-> FALSE, service_accounts |-> <<>>]

format_default(x) == S_default_comma \o x

service_accounts_string_nocomma(self) ==
    IF self.service_accounts = <<>> /\ ~self.include_default THEN <<>>
    ELSE LET x == join(self.service_accounts, S_comma) IN
         IF self.include_default
         THEN (IF x = <<>> THEN S_default ELSE format_default(x))
         ELSE x

service_accounts_string(self) ==
    IF self.service_accounts = <<>> /\ ~self.include_default THEN <<>>
    ELSE LET x == join(self.service_accounts, S_comma) IN
         IF self.include_default THEN format_default(x) ELSE x

\* is_empty under a bug: empty when the rendered string is.
is_empty_rendered(self) == service_accounts_string(self) = <<>>

is_empty(self) == self.service_accounts = <<>>

\* One iteration of the loop of extend.
extend_step_push_default(self, acc) ==
    IF acc = S_default
    THEN [self EXCEPT !.include_default = TRUE,
                      !.service_accounts = Append(@, acc)]
    ELSE [self EXCEPT !.service_accounts = Append(@, acc)]

extend_step(self, acc) ==
    IF acc = S_default
    THEN [self EXCEPT !.include_default = TRUE]
    ELSE [self EXCEPT !.service_accounts = Append(@, acc)]

RECURSIVE extend(_, _)
extend(self, iter) ==
    IF iter = <<>> THEN self
    ELSE extend(extend_step(self, Head(iter)), Tail(iter))

\* main.rs: the iterator val.split(',').map(|v| v.trim().to_string())
raw_elements(val) == LET p == split(val, ",") IN [i \in DOMAIN p |-> trim(p[i])]

\* main.rs: the construction of vsas from the matches of svcac-raw and svcac.
main_vsas_additions_first(crmatch) ==
    LET a == IF crmatch.svcac # <<>> THEN extend(new_no_default, crmatch.svcac)
             ELSE new_no_default
    IN  IF IsSome(crmatch.svcac_raw)
        THEN extend(a, raw_elements(Unwrap(crmatch.svcac_raw)))
        ELSE [a EXCEPT !.include_default = TRUE]

main_vsas(crmatch) ==
    LET v0 == IF IsSome(crmatch.svcac_raw)
              THEN extend(new_no_default, raw_elements(Unwrap(crmatch.svcac_raw)))
              ELSE new
    IN  IF crmatch.svcac # <<>> THEN extend(v0, crmatch.svcac) ELSE v0

\* =========================================================================
\* The vault accumulator fed by main's construction of vsas, without clap's
\* conflicts_with between svcac-raw and svcac (the fragment composes both).
\* =========================================================================
S_a == <<"a">>
S_b == <<"b">>
S_empty == <<>>
S_sp_default == <<" ", "d", "e", "f", "a", "u", "l", "t">>

\* Values of --vault-service-account-raw, each with the elements it is to
\* contribute (written out by hand, element by element).
RawOverrideCases ==
    { [raw |-> S_empty, elems |-> <<S_empty>>],
      [raw |-> S_default, elems |-> <<S_default>>],
      [raw |-> <<"a", ",", " ", "b">>, elems |-> <<S_a, S_b>>],
      [raw |-> <<" ", "d", "e", "f", "a", "u", "l", "t", " ", ",", "a">>,
       elems |-> <<S_default, S_a>>],
      [raw |-> <<"a", ",", ",", "a", "\t">>, elems |-> <<S_a, S_empty, S_a>>],
      [raw |-> <<"b", " ", "b", ",">>, elems |-> <<<<"b", " ", "b">>, S_empty>>] }

RawOverrides == {None} \cup {Some(c.raw) : c \in RawOverrideCases}
AdditionStrs == {S_default, S_a, S_sp_default}

BuildArgs == {[svcac_raw |-> r, svcac |-> a] :
                 r \in RawOverrides, a \in SeqsUpTo(AdditionStrs, MaxAdditions)}

Idle(v) == v = None

MainIdle == /\ Idle(envv) /\ Idle(name) /\ Idle(conn) /\ Idle(labels)
            /\ Idle(annotations) /\ Idle(extra) /\ Idle(payload) /\ Idle(wire)
            /\ Idle(stdout) /\ Idle(stderr) /\ Idle(exit_code) /\ Idle(http)

mainOnly == <<envv, name, conn, labels, annotations, extra, payload, wire,
              stdout, stderr, exit_code, http>>

InitBuild == /\ pc = "build"
             /\ args \in BuildArgs
             /\ vsas = None
             /\ ret = None
             /\ idx = 0
             /\ Idle(fed)
             /\ MainIdle

\* main.rs 228-237
BuildVsas == /\ pc = "build"
             /\ vsas' = Some(main_vsas(args))
             /\ pc' = "render"
             /\ UNCHANGED <<args, ret, idx, fed, mainOnly>>

\* types.rs 92: the string serialized as service_account_name
BuildRender == /\ pc = "render"
               /\ ret' = Some(service_accounts_string(Unwrap(vsas)))
               /\ pc' = "done"
               /\ UNCHANGED <<args, vsas, idx, fed, mainOnly>>

NextBuild == BuildVsas \/ BuildRender

SpecBuild == InitBuild /\ [][NextBuild]_vars

\* =========================================================================
\* A VaultServiceAccounts value under its public interface: one constructor,
\* then extend() calls with arbitrary iterators.
\* =========================================================================
ExtendStrs == {S_default, S_a, S_sp_default}
ExtendIters == SeqsUpTo(ExtendStrs, MaxIterLen)

InitVsa == /\ pc = "construct"
           /\ vsas = None
           /\ fed = <<>>
           /\ idx = 0
           /\ Idle(args) /\ Idle(ret)
           /\ MainIdle

VsaNew == /\ pc = "construct"
          /\ vsas' = Some(new)
          /\ pc' = "new"
          /\ UNCHANGED <<args, ret, idx, fed, mainOnly>>

VsaNewNoDefault == /\ pc = "construct"
                   /\ vsas' = Some(new_no_default)
                   /\ pc' = "new_no_default"
                   /\ UNCHANGED <<args, ret, idx, fed, mainOnly>>

\* fed records every element handed to extend so far; idx counts the calls.
VsaExtend == /\ pc \in {"new", "new_no_default"}
             /\ idx < MaxExtends
             /\ \E iter \in ExtendIters :
                   /\ vsas' = Some(extend(Unwrap(vsas), iter))
                   /\ fed' = fed \o iter
             /\ idx' = idx + 1
             /\ UNCHANGED <<pc, args, ret, mainOnly>>

NextVsa == VsaNew \/ VsaNewNoDefault \/ VsaExtend

SpecVsa == InitVsa /\ [][NextVsa]_vars

\* -------------------------------------------------------------------- C1
\* C1: the account list never contains "default", and include_default is
\* true once any extend() has been fed an element equal to "default".
C1_DefaultNeverListed ==
    IsSome(vsas) =>
        /\ S_default \notin Range(Unwrap(vsas).service_accounts)
        /\ (S_default \in Range(fed) => Unwrap(vsas).include_default)

C1_Witness ==
    /\ pc = "new_no_default" /\ idx = 2
    /\ fed = <<S_a, S_default, S_sp_default>>
    /\ Unwrap(vsas) = [include_default |-> TRUE,
                       service_accounts |-> <<S_a, S_sp_default>>]

\* -------------------------------------------------------------------- C2
\* The list joined with ",", built from the front.
RECURSIVE CommaJoined(_)
CommaJoined(list) ==
    IF list = <<>> THEN <<>>
    ELSE Head(list) \o (IF Tail(list) = <<>> THEN <<>>
                        ELSE <<",">> \o CommaJoined(Tail(list)))

ExampleNoInput == [svcac_raw |-> None, svcac |-> <<>>]
ExampleRawAB == [svcac_raw |-> Some(<<"a", ",", " ", "b">>), svcac |-> <<S_default>>]

RenderedAsJoined ==
    LET v == Unwrap(vsas) s == Unwrap(ret) IN
    /\ s = (IF v.include_default THEN S_default_comma ELSE <<>>)
              \o CommaJoined(v.service_accounts)
    /\ (args = ExampleNoInput => s = S_default_comma)
    /\ (args = ExampleRawAB =>
           s = <<"d", "e", "f", "a", "u", "l", "t", ",", "a", ",", "b">>)

\* C2 as stated: the rendered string is empty exactly when include_default is
\* false and the account list is empty; otherwise it is the joined list,
\* prefixed by "default," when include_default is true.
C2_EmptyExactlyWhenNoAccounts ==
    pc = "done" =>
        LET v == Unwrap(vsas) s == Unwrap(ret) IN
        /\ (s = <<>>) <=> (~v.include_default /\ v.service_accounts = <<>>)
        /\ RenderedAsJoined

\* C2 amended: the rendered string is empty exactly when include_default is
\* false and the account list is empty or holds only one empty string; in
\* every case it is the joined list, prefixed by "default," when
\* include_default is true.
C2_Rendering ==
    pc = "done" =>
        LET v == Unwrap(vsas) s == Unwrap(ret) IN
        /\ (s = <<>>) <=> (~v.include_default
                             /\ v.service_accounts \in {<<>>, <<S_empty>>})
        /\ RenderedAsJoined

C2_Witness ==
    /\ pc = "done" /\ args = ExampleRawAB
    /\ ret = Some(<<"d", "e", "f", "a", "u", "l", "t", ",", "a", ",", "b">>)

\* ------------------------------------------------------------------- C10
NotDefault(e) == e # S_default

\* C10: the account list is the elements other than "default" in input
\* order, the trimmed pieces of the raw override first and the additions
\* after them, duplicates kept; include_default starts false with a raw
\* override and true without one.
C10_AccumulationOrder ==
    pc \in {"render", "done"} =>
        LET v == Unwrap(vsas)
            rawElems == IF IsSome(args.svcac_raw)
                        THEN (CHOOSE c \in RawOverrideCases :
                                 c.raw = Unwrap(args.svcac_raw)).elems
                        ELSE <<>>
            elems == rawElems \o args.svcac
        IN  /\ v.service_accounts = SelectSeq(elems, NotDefault)
            /\ v.include_default =
                  (~IsSome(args.svcac_raw) \/ S_default \in Range(elems))

C10_Witness ==
    /\ pc = "done"
    /\ args = [svcac_raw |-> Some(<<"a", ",", ",", "a", "\t">>),
               svcac |-> <<S_sp_default, S_a>>]
    /\ Unwrap(vsas) = [include_default |-> FALSE,
                       service_accounts |-> <<S_a, S_empty, S_a, S_sp_default, S_a>>]

\* =========================================================================
\* main.rs: validate_ttl, the validator of --ttl
\* =========================================================================
\* The regular expressions validate_ttl needs: a character class, a
\* concatenation, an alternation, and the anchors ^ and $.
Chr(cs) == [t |-> "set", cs |-> cs]
Cat(rs) == [t |-> "cat", rs |-> rs]
Alt(rs) == [t |-> "alt", rs |-> rs]
ReStart == [t |-> "start"]
ReEnd == [t |-> "end"]

\* The positions at which a match of r that starts after the first i
\* characters of s can end.
RECURSIVE Ends(_, _, _)
RECURSIVE CatEnds(_, _, _)
Ends(r, s, i) ==
    CASE r.t = "set" -> IF i < Len(s) /\ s[i + 1] \in r.cs THEN {i + 1} ELSE {}
      [] r.t = "start" -> IF i = 0 THEN {i} ELSE {}
      [] r.t = "end" -> IF i = Len(s) THEN {i} ELSE {}
      [] r.t = "cat" -> CatEnds(r.rs, s, {i})
      [] r.t = "alt" -> UNION {Ends(r.rs[k], s, i) : k \in DOMAIN r.rs}
CatEnds(rs, s, from) ==
    IF rs = <<>> THEN from
    ELSE CatEnds(Tail(rs), s, UNION {Ends(Head(rs), s, i) : i \in from})

\* Regex::is_match: a match anywhere in the text.
is_match(re, s) == \E i \in 0..Len(s) : Ends(re, s, i) # {}

Digits == {"0", "1", "2", "3", "4", "5", "6", "7", "8", "9"}
HD == {"h", "d"}

\* ^(1([hd]|[0-9]h)|2([hd]|[0-9]h)|[3-7][hd]|[89]h)$
ttl_regex_wide ==
    Cat(<<ReStart,
          Alt(<<Cat(<<Chr({"1"}), Alt(<<Chr(HD), Cat(<<Chr(Digits), Chr({"h"})>>)>>)>>),
                Cat(<<Chr({"2"}), Alt(<<Chr(HD), Cat(<<Chr(Digits), Chr({"h"})>>)>>)>>),
                Cat(<<Chr({"3", "4", "5", "6", "7"}), Chr(HD)>>),
                Cat(<<Chr({"8", "9"}), Chr({"h"})>>)>>),
          ReEnd>>)

\* ^(1([hd]|[0-9]h)|2([hd]|[0-4]h)|[3-7][hd]|[89]h)$
ttl_regex ==
    Cat(<<ReStart,
          Alt(<<Cat(<<Chr({"1"}), Alt(<<Chr(HD), Cat(<<Chr(Digits), Chr({"h"})>>)>>)>>),
                Cat(<<Chr({"2"}),
                      Alt(<<Chr(HD),
                            Cat(<<Chr({"0", "1", "2", "3", "4"}), Chr({"h"})>>)>>)>>),
                Cat(<<Chr({"3", "4", "5", "6", "7"}), Chr(HD)>>),
                Cat(<<Chr({"8", "9"}), Chr({"h"})>>)>>),
          ReEnd>>)

validate_ttl(inp) ==
    IF is_match(ttl_regex, inp) THEN Ok(<<>>)
    ELSE Err("Valid TTLs are 1-24h or 1-7d")

TtlChars == Digits \cup HD \cup {"x", "\n"}
TtlInputs == SeqsUpTo(TtlChars, MaxTtlLen)

InitTtl == /\ pc = "validate"
           /\ args \in {[ttl |-> t] : t \in TtlInputs}
           /\ ret = None
           /\ idx = 0
           /\ Idle(vsas) /\ Idle(fed)
           /\ MainIdle

ValidateTtl == /\ pc = "validate"
               /\ ret' = Some(validate_ttl(args.ttl))
               /\ pc' = "validated"
               /\ UNCHANGED <<args, idx, vsas, fed, mainOnly>>

NextTtl == ValidateTtl

SpecTtl == InitTtl /\ [][NextTtl]_vars

\* -------------------------------------------------------------------- C7
DigitChar == <<"0", "1", "2", "3", "4", "5", "6", "7", "8", "9">>

\* n in decimal, without leading zeros.
RECURSIVE Dec(_)
Dec(n) == IF n < 10 THEN <<DigitChar[n + 1]>>
          ELSE Dec(n \div 10) \o <<DigitChar[(n % 10) + 1]>>

ValidTtls == {Dec(n) \o <<"h">> : n \in 1..24} \cup {Dec(n) \o <<"d">> : n \in 1..7}

RejectedTtls == {<<"2", "5", "h">>, <<"8", "d">>, <<"0", "h">>, <<>>, <<"2", "4", "d">>}

\* C7: validate_ttl returns Ok exactly for "<n>h" with n in 1..24 and "<n>d"
\* with n in 1..7, and Err for every other string.
C7_TtlAccepted ==
    pc = "validated" =>
        /\ Unwrap(ret).ok <=> args.ttl \in ValidTtls
        /\ (args.ttl \in RejectedTtls => ~Unwrap(ret).ok)

C7_Witness ==
    /\ pc = "validated"
    /\ args.ttl = <<"2", "4", "h">>
    /\ ret = Some(Ok(<<>>))

\* =========================================================================
\* Label and annotation tokens (klap), maps, manifests
\* =========================================================================
S_env == <<"e", "n", "v">>
S_prod == <<"p", "r", "o", "d">>
S_staging == <<"s", "t", "a", "g", "i", "n", "g">>
S_dev == <<"d", "e", "v">>
S_n == <<"n">>
S_0 == <<"0">>
S_1 == <<"1">>
S_2 == <<"2">>
S_3 == <<"3">>

Letters == {"a", "b", "d", "e", "g", "i", "n", "o", "p", "r", "s", "t", "v", "x"}
KeyChars == Letters \cup Digits \cup {"-", "_", ".", "/"}
LabelValueChars == Letters \cup Digits \cup {"-", "_", "."}

valid_key(k) == k # <<>> /\ \A i \in DOMAIN k : k[i] \in KeyChars
valid_label_value(v) == \A i \in DOMAIN v : v[i] \in LabelValueChars

\* A single pair key=value, split at the first "=".
parse_pair(s, sep) ==
    LET i == find(s, sep) IN
    IF i = 0 THEN Err("missing separator")
    ELSE LET k == SubSeq(s, 1, i - 1)
             v == SubSeq(s, i + 1, Len(s))
         IN  IF valid_key(k) THEN Ok(<<k, v>>) ELSE Err("invalid key")

\* A block of "key: value" lines, blank lines ignored.
RECURSIVE parse_lines(_)
parse_lines(lines) ==
    IF lines = <<>> THEN Ok(<<>>)
    ELSE IF trim(Head(lines)) = <<>> THEN parse_lines(Tail(lines))
    ELSE LET i == find(Head(lines), ":")
             k == trim(SubSeq(Head(lines), 1, i - 1))
             v == trim(SubSeq(Head(lines), i + 1, Len(Head(lines))))
             rest == parse_lines(Tail(lines))
         IN  IF i = 0 \/ ~valid_key(k) \/ ~valid_label_value(v) THEN Err("invalid line")
             ELSE IF ~rest.ok THEN rest
             ELSE Ok(<<<<k, v>>>> \o rest.val)

\* klap::labels_from_str_either: the key=value form, else the block form.
labels_from_str_either(s) ==
    LET one == parse_pair(s, "=") IN
    IF one.ok /\ valid_label_value(one.val[2]) THEN Ok(<<one.val>>)
    ELSE LET blk == parse_lines(split(s, "\n")) IN
         IF blk.ok /\ blk.val # <<>> THEN blk ELSE Err("neither form parses")

\* klap::annotation_from_str: key=value, the value may hold "=".
annotation_from_str(s) ==
    LET one == parse_pair(s, "=") IN
    IF one.ok THEN Ok([key |-> one.val[1], value |-> one.val[2]]) ELSE one

\* HashMap<String, String> as the set of its (key, value) entries.
Keys(m) == {e[1] : e \in m}
Get(m, k) == (CHOOSE e \in m : e[1] = k)[2]

\* HashMap::insert under a bug: an existing key keeps its value.
insert_keep_first(m, k, v) == IF k \in Keys(m) THEN m ELSE m \cup {<<k, v>>}

\* HashMap::insert: the value of an existing key is replaced.
insert(m, k, v) == {e \in m : e[1] # k} \cup {<<k, v>>}

\* HashMap::extend with an iterator of (key, value) tuples, in its order.
RECURSIVE map_extend(_, _)
map_extend(m, pairs) ==
    IF pairs = <<>> THEN m
    ELSE map_extend(insert(m, Head(pairs)[1], Head(pairs)[2]), Tail(pairs))

\* The orders in which draining a HashMap can yield its entries.
Orderings(m) ==
    {f \in [1..Cardinality(m) -> m] : \A i, j \in 1..Cardinality(m) : i # j => f[i] # f[j]}

\* Label tokens, each with the pairs it stands for (None when malformed),
\* written out by hand.
LabelTokenCases ==
    { [token |-> <<"e", "n", "v", "=", "s", "t", "a", "g", "i", "n", "g">>,
       pairs |-> Some(<<<<S_env, S_staging>>>>)],
      [token |-> <<"a", "=", "1">>, pairs |-> Some(<<<<S_a, S_1>>>>)],
      [token |-> <<"a", "=", "2">>, pairs |-> Some(<<<<S_a, S_2>>>>)],
      [token |-> <<"a", ":", " ", "3", "\n", "e", "n", "v", ":", " ", "d", "e", "v">>,
       pairs |-> Some(<<<<S_a, S_3>>, <<S_env, S_dev>>>>)],
      [token |-> S_env, pairs |-> None] }
LabelTokens == {c.token : c \in LabelTokenCases}

AnnoTokenCases ==
    { [token |-> <<"e", "n", "v", "=", "a", "=", "b">>,
       pairs |-> Some(<<<<S_env, <<"a", "=", "b">>>>>>)],
      [token |-> <<"n", "=", "1">>, pairs |-> Some(<<<<S_n, S_1>>>>)],
      [token |-> <<"=", "1">>, pairs |-> None] }
AnnoTokens == {c.token : c \in AnnoTokenCases}

\* metadata.rs: struct Metadata, as deserialized from a manifest.
MdFooBar == [name |-> Some(<<"f", "o", "o", "-", "b", "a", "r">>),
             labels |-> {<<S_env, S_prod>>},
             annotations |-> {<<S_n, S_0>>}]
MdBaz == [name |-> Some(<<"b", "a", "z">>),
          labels |-> {<<S_a, S_0>>, <<S_env, S_prod>>},
          annotations |-> {}]
MdNoName == [name |-> None, labels |-> {}, annotations |-> {<<S_env, S_0>>}]
metadata_default == [name |-> None, labels |-> {}, annotations |-> {}]

\* A value of --metadata-from-manifest with the world it meets: text is the
\* option value, opens whether File::open succeeds on the name after "@", and
\* doc what deserializing the file or the text yields (None: not a manifest).
ManifestInputs ==
    { [text |-> <<"m">>, opens |-> FALSE, doc |-> Some(MdFooBar)],
      [text |-> <<"@", "m">>, opens |-> TRUE, doc |-> Some(MdBaz)],
      [text |-> <<"n">>, opens |-> FALSE, doc |-> Some(MdNoName)],
      [text |-> <<"@", "x">>, opens |-> FALSE, doc |-> None],
      [text |-> <<"x">>, opens |-> FALSE, doc |-> None] }

\* The variants of types::Error.
ErrOption(opt, raw, detail) == [kind |-> "Option", option |-> opt, raw |-> raw,
                                detail |-> detail]
ErrUnknown(msg) == [kind |-> "Unknown", msg |-> msg]
ErrEnvironment(msg) == [kind |-> "Environment", msg |-> msg]
ErrOAuth(status, body) == [kind |-> "OAuth", status |-> status, body |-> body]
ErrApi(status, body) == [kind |-> "Api", status |-> status, body |-> body]
ErrAPITimeout == [kind |-> "APITimeout"]

\* metadata.rs: parse_metadata
parse_metadata(input) ==
    IF input.text # <<>> /\ Head(input.text) = "@" /\ ~input.opens
    THEN Err(ErrOption("metadata-from-manifest", input.text, "open failed"))
    ELSE IF IsSome(input.doc) THEN Ok(Unwrap(input.doc))
    ELSE Err(ErrUnknown("manifest does not deserialize"))

\* =========================================================================
\* main.rs: the create sub-command
\* =========================================================================
S_foo == <<"f", "o", "o">>
S_bar == <<"b", "a", "r">>
S_24h == <<"2", "4", "h">>

\* ArgMatches::value_of / values_of: None for an argument the matches do not
\* hold, be it absent from the command line or not declared on this command.
values_of(m, arg) == IF arg \in DOMAIN m THEN m[arg] ELSE None
value_of(m, arg) == values_of(m, arg)
is_present(m, arg) == arg \in DOMAIN m /\ m[arg] = TRUE

\* The matches of the top-level App, which declares no argument of its own.
top_matches == [subcommand |-> "create"]

env_var(e, var) == IF IsSome(e[var]) THEN Ok(Unwrap(e[var])) ELSE Err("NotPresent")

\* strip_prefix_if_exists under a bug: the "-" after the prefix is not tested.
strip_prefix_if_exists_no_dash(nm, prefix) ==
    IF starts_with(nm, prefix)
    THEN SubSeq(nm, Len(prefix) + 2, Len(nm))
    ELSE nm

strip_prefix_if_exists(nm, prefix) ==
    IF starts_with(nm, prefix \o <<"-">>)
    THEN SubSeq(nm, Len(prefix) + 2, Len(nm))
    ELSE nm

merge_option_and_result(a, b) ==
    IF IsSome(a) THEN Ok(Unwrap(a))
    ELSE IF b.ok THEN Ok(b.val) ELSE Err(b.err)

\* serde: the serialized NSDef as the sequence of its top-level members.
Member(k, v) == [key |-> k, value |-> v]

RECURSIVE flat_members(_)
flat_members(entries) ==
    IF entries = <<>> THEN <<>>
    ELSE <<Member(Head(entries)[1], Head(entries)[2])>> \o flat_members(Tail(entries))

\* serde under a bug: extra_properties kept as one nested member.
serialize_nested(p, extras) ==
    <<Member("productkey", p.productkey), Member("ttl", p.ttl),
      Member("cluster", p.cluster), Member("namespace", p.namespace)>>
    \o (IF p.labels = <<>> THEN <<>> ELSE <<Member("labels", p.labels)>>)
    \o (IF p.annotations = <<>> THEN <<>> ELSE <<Member("annotations", p.annotations)>>)
    \o (IF is_empty(p.vault_service_accounts) THEN <<>>
        ELSE <<Member("vault_config",
                      [service_account_name |->
                          service_accounts_string(p.vault_service_accounts)])>>)
    \o <<Member("extra_properties", flat_members(extras))>>

\* types.rs: #[derive(Serialize)] of NSDef; extras is the order in which the
\* flattened HashMap yields its entries.
serialize(p, extras) ==
    <<Member("productkey", p.productkey), Member("ttl", p.ttl),
      Member("cluster", p.cluster), Member("namespace", p.namespace)>>
    \o (IF p.labels = <<>> THEN <<>> ELSE <<Member("labels", p.labels)>>)
    \o (IF p.annotations = <<>> THEN <<>> ELSE <<Member("annotations", p.annotations)>>)
    \o (IF is_empty(p.vault_service_accounts) THEN <<>>
        ELSE <<Member("vault_config",
                      [service_account_name |->
                          service_accounts_string(p.vault_service_accounts)])>>)
    \o flat_members(extras)

\* ------------------------------------------------------------ the inputs
S_team_x == <<"t", "e", "a", "m", "-", "x">>

\* A value of --extra-data with the world it meets (as for manifests); the
\* second one holds a key that is also a field of NSDef.
ExtraInputs ==
    { [text |-> <<"o">>, opens |-> FALSE, doc |-> Some({<<"owner", S_team_x>>})],
      [text |-> <<"@", "e">>, opens |-> TRUE,
       doc |-> Some({<<"owner", S_team_x>>, <<"ttl", <<"9", "h">>>>})],
      [text |-> <<"@", "x">>, opens |-> FALSE, doc |-> None],
      [text |-> <<"x">>, opens |-> FALSE, doc |-> None] }

InputOwner == [text |-> <<"o">>, opens |-> FALSE, doc |-> Some({<<"owner", S_team_x>>})]

PlaceholderName == <<"-">>
NameArgs == {S_bar, <<"f", "o", "o", "-", "b", "a", "r">>, S_foo,
             <<"f", "o", "o", "b", "a", "r">>, <<"f", "o", "o", "-">>, PlaceholderName}

\* The matches of the create sub-command, one field per declared argument
\* ("-" written "_"): an Option for a single value, the sequence of values
\* for a repeatable option (empty when absent), a flag for strip-prefix.
BaseArgs == [productkey |-> Some(S_foo), name |-> Some(S_bar), ttl |-> Some(S_24h),
             strip_prefix |-> FALSE,
             labels |-> <<>>, annotation |-> <<>>, manifest |-> None,
             svcac_raw |-> None, svcac |-> <<>>, extra_props |-> None,
             hostname |-> None, cluster |-> None, tenant |-> None]

BaseEnv == [PLATFORM_API_HOSTNAME |-> Some("api.example"),
            PLATFORM_API_CLUSTER |-> Some("c1"),
            PLATFORM_API_TENANT |-> Some("t1"),
            SCOPE |-> Some([raw |-> "api://x", encoded |-> FALSE, decodes |-> TRUE]),
            CLIENT_ID |-> Some("id"),
            CLIENT_SECRET |-> Some("secret")]

ManifestOpts == {None} \cup {Some(m) : m \in ManifestInputs}

\* The command lines: each family varies some options over all their values
\* and leaves the others as in BaseArgs.
LabelArgs == {[BaseArgs EXCEPT !.manifest = m, !.labels = l] :
                 m \in ManifestOpts, l \in SeqsUpTo(LabelTokens, MaxLabelOpts)}
AnnoArgs == {[BaseArgs EXCEPT !.manifest = m, !.annotation = a] :
                m \in ManifestOpts, a \in SeqsUpTo(AnnoTokens, MaxAnnoOpts)}
NameFamily == {[BaseArgs EXCEPT !.name = Some(n), !.strip_prefix = s, !.manifest = m] :
                  n \in NameArgs, s \in BOOLEAN, m \in ManifestOpts}
VaultArgs == {[BaseArgs EXCEPT !.svcac_raw = b.svcac_raw, !.svcac = b.svcac] :
                 b \in BuildArgs}
ExtraArgs == {[BaseArgs EXCEPT !.extra_props = Some(x), !.labels = l] :
                 x \in ExtraInputs, l \in SeqsUpTo(LabelTokens, 1)}
TtlArgs == {[BaseArgs EXCEPT !.ttl = Some(t)] :
               t \in {<<"7", "d">>, <<"2", "5", "h">>, <<>>}}
ConnArgs == {[BaseArgs EXCEPT !.hostname = h, !.cluster = c, !.tenant = t] :
                h \in {None, Some("cli.example")}, c \in {None, Some("c2")},
                t \in {None, Some("t2")}}
MainArgs == LabelArgs \cup AnnoArgs \cup NameFamily \cup VaultArgs \cup ExtraArgs
               \cup TtlArgs

ScopeValues == {[raw |-> "api://x", encoded |-> FALSE, decodes |-> TRUE],
                [raw |-> "api%3A%2F%2Fx", encoded |-> TRUE, decodes |-> TRUE],
                [raw |-> "api%3A%2F%2F%FF", encoded |-> TRUE, decodes |-> FALSE]}

PlatformEnvs == {[BaseEnv EXCEPT !.PLATFORM_API_HOSTNAME = h, !.PLATFORM_API_CLUSTER = c,
                                 !.PLATFORM_API_TENANT = t] :
                    h \in {None, Some("api.example")}, c \in {None, Some("c1")},
                    t \in {None, Some("t1")}}
OAuthEnvs == {[BaseEnv EXCEPT !.SCOPE = sc, !.CLIENT_ID = id, !.CLIENT_SECRET = se] :
                 sc \in {None} \cup {Some(v) : v \in ScopeValues},
                 id \in {None, Some("id")}, se \in {None, Some("secret")}}

Init == /\ pc = "parse"
        /\ \/ args \in MainArgs /\ envv = BaseEnv
           \/ args \in ConnArgs /\ envv \in PlatformEnvs
           \/ args = BaseArgs /\ envv \in OAuthEnvs
        /\ name = None /\ conn = None
        /\ labels = {} /\ annotations = {} /\ extra = {}
        /\ idx = 0
        /\ vsas = None /\ payload = None /\ wire = None
        /\ stdout = <<>> /\ stderr = <<>>
        /\ exit_code = None
        /\ http = <<>>
        /\ ret = None
        /\ Idle(fed)

\* process::exit(code) after a line on stderr
Die(msg, code) == /\ stderr' = Append(stderr, msg)
                  /\ exit_code' = Some(code)
                  /\ pc' = "exited"

\* main.rs 79-162: get_matches; clap reports a usage error and exits with 1.
ParseArgs ==
    /\ pc = "parse"
    /\ IF ~validate_ttl(Unwrap(args.ttl)).ok
       THEN Die([by |-> "clap", about |-> "ttl",
                 detail |-> validate_ttl(Unwrap(args.ttl)).err], 1)
       ELSE IF IsSome(args.svcac_raw) /\ args.svcac # <<>>
       THEN Die([by |-> "clap", about |-> "svcac-raw", detail |-> "conflicts with svcac"], 1)
       ELSE pc' = "name" /\ UNCHANGED <<stderr, exit_code>>
    /\ UNCHANGED <<args, envv, name, conn, labels, annotations, idx, vsas, extra,
                   payload, wire, stdout, http, ret, fed>>

\* main.rs 164-169
ResolveName ==
    /\ pc = "name"
    /\ name' = Some(IF is_present(args, "strip_prefix")
                    THEN strip_prefix_if_exists(Unwrap(value_of(args, "name")),
                                                Unwrap(value_of(args, "productkey")))
                    ELSE Unwrap(value_of(args, "name")))
    /\ pc' = "conn"
    /\ UNCHANGED <<args, envv, conn, labels, annotations, idx, vsas, extra, payload,
                   wire, stdout, stderr, exit_code, http, ret, fed>>

\* main.rs 170-193: the options are looked up in the top-level matches.
ResolveConn ==
    /\ pc = "conn"
    /\ LET h == merge_option_and_result(value_of(top_matches, "hostname"),
                                        env_var(envv, "PLATFORM_API_HOSTNAME"))
           c == merge_option_and_result(value_of(top_matches, "cluster"),
                                        env_var(envv, "PLATFORM_API_CLUSTER"))
           t == merge_option_and_result(value_of(top_matches, "tenant"),
                                        env_var(envv, "PLATFORM_API_TENANT"))
       IN  IF ~h.ok
           THEN Die([by |-> "main", about |-> "--hostname", detail |-> h.err], 1)
                /\ UNCHANGED conn
           ELSE IF ~c.ok
           THEN Die([by |-> "main", about |-> "--cluster", detail |-> c.err], 1)
                /\ UNCHANGED conn
           ELSE IF ~t.ok
           THEN Die([by |-> "main", about |-> "--tenant", detail |-> t.err], 1)
                /\ UNCHANGED conn
           ELSE /\ conn' = Some([hostname |-> h.val, cluster |-> c.val, tenant |-> t.val])
                /\ pc' = "manifest"
                /\ UNCHANGED <<stderr, exit_code>>
    /\ UNCHANGED <<args, envv, name, labels, annotations, idx, vsas, extra, payload,
                   wire, stdout, http, ret, fed>>

\* main.rs 194-201: a manifest that does not parse panics at unwrap().
LoadManifest ==
    /\ pc = "manifest"
    /\ LET m == value_of(args, "manifest")
           r == IF IsSome(m) THEN parse_metadata(Unwrap(m)) ELSE Ok(metadata_default)
       IN  IF ~r.ok
           THEN Die([by |-> "panic", about |-> "manifest", detail |-> r.err], 101)
                /\ UNCHANGED <<labels, annotations, idx>>
           ELSE /\ labels' = r.val.labels
                /\ annotations' = r.val.annotations
                /\ idx' = 1
                /\ pc' = "labels"
                /\ UNCHANGED <<stderr, exit_code>>
    /\ UNCHANGED <<args, envv, name, conn, vsas, extra, payload, wire, stdout, http,
                   ret, fed>>

\* main.rs 202-214: one iteration of the loop over the label options
MergeLabel ==
    /\ pc = "labels"
    /\ idx <= Len(values_of(args, "labels"))
    /\ LET i == values_of(args, "labels")[idx]
           r == labels_from_str_either(i)
       IN  IF ~r.ok
           THEN Die([by |-> "main", about |-> "label", detail |-> i], 1)
                /\ UNCHANGED <<labels, idx>>
           ELSE /\ labels' = map_extend(labels, r.val)
                /\ idx' = idx + 1
                /\ UNCHANGED <<pc, stderr, exit_code>>
    /\ UNCHANGED <<args, envv, name, conn, annotations, vsas, extra, payload, wire,
                   stdout, http, ret, fed>>

LabelsDone ==
    /\ pc = "labels"
    /\ idx > Len(values_of(args, "labels"))
    /\ pc' = "annotations"
    /\ idx' = 1
    /\ UNCHANGED <<args, envv, name, conn, labels, annotations, vsas, extra, payload,
                   wire, stdout, stderr, exit_code, http, ret, fed>>

\* main.rs 215-227: one iteration of the loop over the annotation options
MergeAnnotation ==
    /\ pc = "annotations"
    /\ idx <= Len(values_of(args, "annotation"))
    /\ LET i == values_of(args, "annotation")[idx]
           r == annotation_from_str(i)
       IN  IF ~r.ok
           THEN Die([by |-> "main", about |-> "annotation", detail |-> i], 1)
                /\ UNCHANGED <<annotations, idx>>
           ELSE /\ annotations' = insert(annotations, r.val.key, r.val.value)
                /\ idx' = idx + 1
                /\ UNCHANGED <<pc, stderr, exit_code>>
    /\ UNCHANGED <<args, envv, name, conn, labels, vsas, extra, payload, wire,
                   stdout, http, ret, fed>>

AnnotationsDone ==
    /\ pc = "annotations"
    /\ idx > Len(values_of(args, "annotation"))
    /\ pc' = "vsas"
    /\ UNCHANGED <<args, envv, name, conn, labels, annotations, idx, vsas, extra,
                   payload, wire, stdout, stderr, exit_code, http, ret, fed>>

\* main.rs 228-237
MainVsas ==
    /\ pc = "vsas"
    /\ vsas' = Some(main_vsas(args))
    /\ pc' = "extra"
    /\ UNCHANGED <<args, envv, name, conn, labels, annotations, idx, extra, payload,
                   wire, stdout, stderr, exit_code, http, ret, fed>>

\* main.rs 238-248: a file that does not open, or data that does not
\* deserialize, panics at unwrap().
LoadExtra ==
    /\ pc = "extra"
    /\ LET o == value_of(args, "extra_props") IN
       IF ~IsSome(o)
       THEN extra' = {} /\ pc' = "assemble" /\ UNCHANGED <<stderr, exit_code>>
       ELSE LET val == Unwrap(o) IN
            IF val.text # <<>> /\ Head(val.text) = "@" /\ ~val.opens
            THEN Die([by |-> "panic", about |-> "extra-data", detail |-> "open failed"], 101)
                 /\ UNCHANGED extra
            ELSE IF ~IsSome(val.doc)
            THEN Die([by |-> "panic", about |-> "extra-data", detail |-> "not a mapping"], 101)
                 /\ UNCHANGED extra
            ELSE extra' = Unwrap(val.doc) /\ pc' = "assemble"
                 /\ UNCHANGED <<stderr, exit_code>>
    /\ UNCHANGED <<args, envv, name, conn, labels, annotations, idx, vsas, payload,
                   wire, stdout, http, ret, fed>>

\* main.rs 249-261: the maps are drained in an order the HashMap chooses.
AssemblePayload ==
    /\ pc = "assemble"
    /\ \E ls \in Orderings(labels), an \in Orderings(annotations) :
          payload' = Some([productkey |-> Unwrap(value_of(args, "productkey")),
                           ttl |-> Unwrap(value_of(args, "ttl")),
                           cluster |-> Unwrap(conn).cluster,
                           namespace |-> Unwrap(name),
                           labels |-> ls,
                           annotations |-> an,
                           vault_service_accounts |-> Unwrap(vsas),
                           extra_properties |-> extra])
    /\ labels' = {}
    /\ annotations' = {}
    /\ pc' = "creds"
    /\ UNCHANGED <<args, envv, name, conn, idx, vsas, extra, wire, stdout, stderr,
                   exit_code, http, ret, fed>>

\* auth.rs 14-24: get_oauth_creds_from_env
get_oauth_creds_from_env(e) ==
    LET sc == env_var(e, "SCOPE")
        id == env_var(e, "CLIENT_ID")
        se == env_var(e, "CLIENT_SECRET")
    IN  IF ~sc.ok THEN Err(ErrEnvironment("SCOPE"))
        ELSE IF sc.val.encoded /\ ~sc.val.decodes THEN Err(ErrUnknown("scope does not decode"))
        ELSE IF ~id.ok THEN Err(ErrEnvironment("CLIENT_ID"))
        ELSE IF ~se.ok THEN Err(ErrEnvironment("CLIENT_SECRET"))
        ELSE Ok([scope |-> sc.val.raw, decoded |-> sc.val.encoded, client_id |-> id.val,
                 client_secret |-> se.val, grant_type |-> "client_credentials"])

\* What the token endpoint can answer: sent (the request got a response),
\* status, readable (the body can be read), token (the body as a Token).
TokenResponses ==
    { [sent |-> FALSE, status |-> 0, readable |-> FALSE, token |-> None],
      [sent |-> TRUE, status |-> 401, readable |-> TRUE, token |-> None],
      [sent |-> TRUE, status |-> 200, readable |-> FALSE, token |-> None],
      [sent |-> TRUE, status |-> 200, readable |-> TRUE, token |-> None],
      [sent |-> TRUE, status |-> 200, readable |-> TRUE,
       token |-> Some([type_ |-> "bearer", value |-> "tok"])],
      [sent |-> TRUE, status |-> 200, readable |-> TRUE,
       token |-> Some([type_ |-> "Bearer", value |-> "tok"])] }

is_success(status) == status >= 200 /\ status <= 299

\* get_bearer_token under a bug: the token type is not looked at.
bearer_token_result_any_type(r) ==
    IF ~r.sent THEN Err(ErrUnknown("Error from OAuth request"))
    ELSE IF ~r.readable THEN Err(ErrUnknown("Error obtaining body of OAuth response"))
    ELSE IF ~is_success(r.status) THEN Err(ErrOAuth(r.status, "body"))
    ELSE IF ~IsSome(r.token) THEN Err(ErrUnknown("Error decoding OAuth API Response"))
    ELSE Ok(Unwrap(r.token))

\* auth.rs 26-55: the outcome of get_bearer_token on response r
bearer_token_result(r) ==
    IF ~r.sent THEN Err(ErrUnknown("Error from OAuth request"))
    ELSE IF ~r.readable THEN Err(ErrUnknown("Error obtaining body of OAuth response"))
    ELSE IF ~is_success(r.status) THEN Err(ErrOAuth(r.status, "body"))
    ELSE IF ~IsSome(r.token) THEN Err(ErrUnknown("Error decoding OAuth API Response"))
    ELSE IF Unwrap(r.token).type_ # "Bearer" THEN Err(ErrUnknown("Unknown token type"))
    ELSE Ok(Unwrap(r.token))

\* main.rs 42, auth.rs 26-55: get_bearer_token; the credentials are read
\* before the request is built, so without them nothing is sent.
GetBearerToken ==
    /\ pc = "creds"
    /\ LET creds == get_oauth_creds_from_env(envv) IN
       IF ~creds.ok
       THEN /\ ret' = Some(Err(creds.err))
            /\ pc' = "exit"
            /\ UNCHANGED http
       ELSE \E r \in TokenResponses :
               /\ http' = Append(http, [to |-> "token", tenant |-> Unwrap(conn).tenant,
                                        form |-> creds.val, response |-> r])
               /\ IF bearer_token_result(r).ok
                  THEN pc' = "post" /\ UNCHANGED ret
                  ELSE ret' = Some(Err(bearer_token_result(r).err)) /\ pc' = "exit"
    /\ UNCHANGED <<args, envv, name, conn, labels, annotations, idx, vsas, extra,
                   payload, wire, stdout, stderr, exit_code, fed>>

\* What the platform API can answer: sent, timeout (why it was not sent),
\* status, readable, decodes (the body is an NSResponse).
ApiResponses ==
    { [sent |-> FALSE, timeout |-> TRUE, status |-> 0, readable |-> FALSE, decodes |-> FALSE],
      [sent |-> FALSE, timeout |-> FALSE, status |-> 0, readable |-> FALSE, decodes |-> FALSE],
      [sent |-> TRUE, timeout |-> FALSE, status |-> 200, readable |-> FALSE, decodes |-> FALSE],
      [sent |-> TRUE, timeout |-> FALSE, status |-> 500, readable |-> TRUE, decodes |-> FALSE],
      [sent |-> TRUE, timeout |-> FALSE, status |-> 200, readable |-> TRUE, decodes |-> FALSE],
      [sent |-> TRUE, timeout |-> FALSE, status |-> 200, readable |-> TRUE, decodes |-> TRUE] }

\* main.rs 43-71: the POST of the payload; resp.text().unwrap() panics on a
\* body that cannot be read.
PostNamespace ==
    /\ pc = "post"
    /\ \E extras \in Orderings(Unwrap(payload).extra_properties), r \in ApiResponses :
          /\ wire' = Some(serialize(Unwrap(payload), extras))
          /\ http' = Append(http, [to |-> "namespace", hostname |-> Unwrap(conn).hostname,
                                   bearer |-> Unwrap(http[Len(http)].response.token).value,
                                   response |-> r])
          /\ IF ~r.sent
             THEN /\ ret' = Some(Err(IF r.timeout THEN ErrAPITimeout
                                     ELSE ErrUnknown("error communicating with the Platform API")))
                  /\ pc' = "exit"
                  /\ UNCHANGED <<stderr, exit_code>>
             ELSE IF ~r.readable
             THEN Die([by |-> "panic", about |-> "response body", detail |-> "unreadable"], 101)
                  /\ UNCHANGED ret
             ELSE IF is_success(r.status)
             THEN /\ ret' = Some(IF r.decodes
                                 THEN Ok([message |-> "created",
                                          namespace |-> Unwrap(payload).namespace,
                                          expiry |-> "later"])
                                 ELSE Err(ErrUnknown("Error decoding API Response")))
                  /\ pc' = "exit"
                  /\ UNCHANGED <<stderr, exit_code>>
             ELSE /\ ret' = Some(Err(ErrApi(r.status, "body")))
                  /\ pc' = "exit"
                  /\ UNCHANGED <<stderr, exit_code>>
    /\ UNCHANGED <<args, envv, name, conn, labels, annotations, idx, vsas, extra,
                   payload, stdout, fed>>

\* main.rs 262-271
MainExit ==
    /\ pc = "exit"
    /\ IF Unwrap(ret).ok
       THEN /\ stdout' = Append(stdout, Unwrap(ret).val)
            /\ exit_code' = Some(0)
            /\ UNCHANGED stderr
       ELSE /\ stderr' = Append(stderr, [by |-> "main", about |-> "create",
                                         detail |-> Unwrap(ret).err])
            /\ exit_code' = Some(1)
            /\ UNCHANGED stdout
    /\ pc' = "exited"
    /\ UNCHANGED <<args, envv, name, conn, labels, annotations, idx, vsas, extra,
                   payload, wire, http, ret, fed>>

Next == \/ ParseArgs
        \/ ResolveName
        \/ ResolveConn
        \/ LoadManifest
        \/ MergeLabel
        \/ LabelsDone
        \/ MergeAnnotation
        \/ AnnotationsDone
        \/ MainVsas
        \/ LoadExtra
        \/ AssemblePayload
        \/ GetBearerToken
        \/ PostNamespace
        \/ MainExit

Spec == Init /\ [][Next]_vars

\* =========================================================================
\* metadata.rs: metadata_from_matches
\* =========================================================================
RECURSIVE match_labels_loop(_, _)
match_labels_loop(label_opts, lbls) ==
    IF label_opts = <<>> THEN Ok(lbls)
    ELSE LET labelstr == Head(label_opts)
             r == labels_from_str_either(labelstr)
         IN  IF ~r.ok THEN Err(ErrOption("labels", labelstr, r.err))
             ELSE match_labels_loop(Tail(label_opts), map_extend(lbls, r.val))

\* metadata.rs 41-59
match_labels(matches, lbls) ==
    IF IsSome(values_of(matches, "labels"))
    THEN match_labels_loop(values_of(matches, "labels"), lbls)
    ELSE Ok(lbls)

RECURSIVE match_annotations_loop(_, _)
match_annotations_loop(anno_opts, annos) ==
    IF anno_opts = <<>> THEN Ok(annos)
    ELSE LET anno_str == Head(anno_opts)
             r == annotation_from_str(anno_str)
         IN  IF ~r.ok THEN Err(ErrOption("annotation", anno_str, r.err))
             ELSE match_annotations_loop(Tail(anno_opts),
                                         insert(annos, r.val.key, r.val.value))

\* metadata.rs 61-82: the values are asked for under the name "annotations",
\* while the option is declared as "annotation" (main.rs 112).
match_annotations(matches, annos) ==
    IF IsSome(values_of(matches, "annotations"))
    THEN match_annotations_loop(values_of(matches, "annotations"), annos)
    ELSE Ok(annos)

MetaArgs == {[BaseArgs EXCEPT !.manifest = m, !.labels = l, !.annotation = a] :
                m \in ManifestOpts,
                l \in SeqsUpTo(LabelTokens, 1),
                a \in SeqsUpTo(AnnoTokens, MaxAnnoOpts)}

\* name, labels and annotations hold the fields of the local metadata.
InitMeta == /\ pc = "metadata"
            /\ args \in MetaArgs
            /\ name = None /\ labels = {} /\ annotations = {}
            /\ ret = None
            /\ idx = 0
            /\ Idle(envv) /\ Idle(conn) /\ Idle(vsas) /\ Idle(extra) /\ Idle(payload)
            /\ Idle(wire) /\ Idle(stdout) /\ Idle(stderr) /\ Idle(exit_code)
            /\ Idle(http) /\ Idle(fed)

metaOther == <<args, idx, envv, conn, vsas, extra, payload, wire, stdout, stderr,
               exit_code, http, fed>>

\* metadata.rs 85-90
MetaManifest ==
    /\ pc = "metadata"
    /\ LET m == value_of(args, "manifest")
           r == IF IsSome(m) THEN parse_metadata(Unwrap(m)) ELSE Ok(metadata_default)
       IN  IF ~r.ok
           THEN /\ ret' = Some(r) /\ pc' = "returned"
                /\ UNCHANGED <<name, labels, annotations>>
           ELSE /\ name' = r.val.name
                /\ labels' = r.val.labels
                /\ annotations' = r.val.annotations
                /\ pc' = "match_labels"
                /\ UNCHANGED ret
    /\ UNCHANGED metaOther

\* metadata.rs 91
MetaMatchLabels ==
    /\ pc = "match_labels"
    /\ LET r == match_labels(args, labels) IN
       IF ~r.ok
       THEN ret' = Some(r) /\ pc' = "returned" /\ UNCHANGED labels
       ELSE labels' = r.val /\ pc' = "match_annotations" /\ UNCHANGED ret
    /\ UNCHANGED <<name, annotations, metaOther>>

\* metadata.rs 92-93
MetaMatchAnnotations ==
    /\ pc = "match_annotations"
    /\ LET r == match_annotations(args, annotations) IN
       IF ~r.ok
       THEN ret' = Some(r) /\ UNCHANGED annotations
       ELSE /\ annotations' = r.val
            /\ ret' = Some(Ok([name |-> name, labels |-> labels, annotations |-> r.val]))
    /\ pc' = "returned"
    /\ UNCHANGED <<name, labels, metaOther>>

NextMeta == MetaManifest \/ MetaMatchLabels \/ MetaMatchAnnotations

SpecMeta == InitMeta /\ [][NextMeta]_vars

\* =========================================================================
\* The merge rule, stated on the pairs each token stands for
\* =========================================================================
RECURSIVE PairsOf(_, _)
PairsOf(tokens, cases) ==
    IF tokens = <<>> THEN <<>>
    ELSE Unwrap((CHOOSE c \in cases : c.token = Head(tokens)).pairs)
            \o PairsOf(Tail(tokens), cases)

WellFormed(tokens, cases) ==
    \A i \in DOMAIN tokens : IsSome((CHOOSE c \in cases : c.token = tokens[i]).pairs)

LastWith(pairs, k) ==
    pairs[CHOOSE i \in DOMAIN pairs :
             pairs[i][1] = k /\ \A j \in (i + 1)..Len(pairs) : pairs[j][1] # k][2]

\* For every key the last pair with that key; else the entry of base.
Merged(base, pairs) ==
    LET cli == {pairs[i][1] : i \in DOMAIN pairs} IN
    {<<k, IF k \in cli THEN LastWith(pairs, k) ELSE Get(base, k)>> :
        k \in Keys(base) \cup cli}

ManifestDoc(a) == IF IsSome(a.manifest) THEN Unwrap(Unwrap(a.manifest).doc)
                  ELSE metadata_default

InputFooBar == [text |-> <<"m">>, opens |-> FALSE, doc |-> Some(MdFooBar)]
TokenEnvStaging == <<"e", "n", "v", "=", "s", "t", "a", "g", "i", "n", "g">>

\* -------------------------------------------------------------------- C4
\* C4: once every CLI label is processed, the label mapping holds for each
\* key the value of the last CLI label with that key, else the manifest's
\* value, and no other key.
C4_LabelPrecedence ==
    pc \in {"annotations", "vsas", "extra", "assemble"} =>
        /\ labels = Merged(ManifestDoc(args).labels, PairsOf(args.labels, LabelTokenCases))
        /\ (args.manifest = Some(InputFooBar) /\ args.labels = <<TokenEnvStaging>>
               => labels = {<<S_env, S_staging>>})

C4_Witness ==
    /\ pc = "annotations"
    /\ args.manifest = Some(InputFooBar)
    /\ args.labels = <<<<"a", "=", "1">>, TokenEnvStaging>>
    /\ labels = {<<S_env, S_staging>>, <<S_a, S_1>>}

\* -------------------------------------------------------------------- C5
\* C5: the annotation mapping metadata_from_matches returns holds every
\* --annotation value, upserted over the manifest's annotations, the last
\* value of a key winning.
C5_AnnotationsMerged ==
    (pc = "returned" /\ Unwrap(ret).ok /\ WellFormed(args.annotation, AnnoTokenCases)) =>
        Unwrap(ret).val.annotations =
            Merged(ManifestDoc(args).annotations, PairsOf(args.annotation, AnnoTokenCases))

\* -------------------------------------------------------------------- C6
ManifestNameHasPrefix(a) ==
    /\ IsSome(a.manifest)
    /\ IsSome(Unwrap(a.manifest).doc)
    /\ IsSome(ManifestDoc(a).name)
    /\ LET n == Unwrap(ManifestDoc(a).name)
           pre == Unwrap(a.productkey) \o <<"-">>
       IN  Len(n) >= Len(pre) /\ \A i \in DOMAIN pre : n[i] = pre[i]

\* C6: with the placeholder as name argument the namespace is the manifest's
\* name without the "<productkey>-" prefix, and without such a name no
\* payload is assembled.
C6_NameFromManifest ==
    (args.name = Some(PlaceholderName) /\ IsSome(payload)) =>
        /\ ManifestNameHasPrefix(args)
        /\ Unwrap(payload).namespace =
              LET n == Unwrap(ManifestDoc(args).name) IN
              [i \in 1..(Len(n) - Len(Unwrap(args.productkey)) - 1) |->
                  n[i + Len(Unwrap(args.productkey)) + 1]]

\* -------------------------------------------------------------------- C8
FirstMalformed(tokens, cases) ==
    CHOOSE i \in DOMAIN tokens :
        /\ ~IsSome((CHOOSE c \in cases : c.token = tokens[i]).pairs)
        /\ WellFormed(SubSeq(tokens, 1, i - 1), cases)

ManifestLoads(a) == ~IsSome(a.manifest) \/ IsSome(Unwrap(a.manifest).doc)

\* C8: a malformed label or annotation token comes back as an Option error
\* value with the option name and the token; the merge prints nothing and
\* does not end the process, and no payload is assembled or sent.
C8_MalformedTokenReturned ==
    /\ \A i \in DOMAIN stderr :
          ~(stderr[i].by = "main" /\ stderr[i].about \in {"label", "annotation"})
    /\ (pc = "exited" /\ ManifestLoads(args)
          /\ ~WellFormed(args.labels, LabelTokenCases)) =>
          /\ IsSome(ret) /\ ~Unwrap(ret).ok
          /\ Unwrap(ret).err.kind = "Option"
          /\ Unwrap(ret).err.option = "labels"
          /\ Unwrap(ret).err.raw =
                args.labels[FirstMalformed(args.labels, LabelTokenCases)]
    /\ (pc = "exited" /\ ManifestLoads(args)
          /\ ~WellFormed(args.annotation, AnnoTokenCases)) =>
          /\ IsSome(ret) /\ ~Unwrap(ret).ok
          /\ Unwrap(ret).err.kind = "Option"
          /\ Unwrap(ret).err.option = "annotation"
          /\ Unwrap(ret).err.raw =
                args.annotation[FirstMalformed(args.annotation, AnnoTokenCases)]
    /\ (~WellFormed(args.labels, LabelTokenCases)
          \/ ~WellFormed(args.annotation, AnnoTokenCases)) =>
          (payload = None /\ http = <<>>)

\* -------------------------------------------------------------------- C9
WireKeys == [i \in DOMAIN Unwrap(wire) |-> Unwrap(wire)[i].key]
HasMember(k) == \E i \in DOMAIN Unwrap(wire) : Unwrap(wire)[i].key = k
MemberIs(k, v) ==
    \E i \in DOMAIN Unwrap(wire) : Unwrap(wire)[i].key = k /\ Unwrap(wire)[i].value = v

\* C9: labels is on the wire iff the label list is non-empty, annotations
\* iff the annotation list is non-empty, and every key of extra_properties
\* is a top-level member beside productkey, ttl, cluster and namespace.
C9_WireMembers ==
    IsSome(wire) =>
        LET p == Unwrap(payload) IN
        /\ HasMember("labels") <=> p.labels # <<>>
        /\ HasMember("annotations") <=> p.annotations # <<>>
        /\ \A e \in p.extra_properties : MemberIs(e[1], e[2])
        /\ \A k \in {"productkey", "ttl", "cluster", "namespace"} : HasMember(k)
        /\ (/\ args.extra_props = Some(InputOwner)
            /\ p.labels = <<>> /\ p.annotations = <<>>
            /\ p.vault_service_accounts.service_accounts = <<>>)
           => /\ WireKeys = <<"productkey", "ttl", "cluster", "namespace", "owner">>
              /\ MemberIs("owner", S_team_x)

C9_Witness ==
    /\ IsSome(wire)
    /\ args.extra_props = Some(InputOwner)
    /\ args.labels = <<>>
    /\ Unwrap(payload).vault_service_accounts = new
    /\ WireKeys = <<"productkey", "ttl", "cluster", "namespace", "owner">>

\* -------------------------------------------------------------------- C3
\* C3 as stated: vault_config is on the wire exactly when the rendered
\* service-account string is non-empty.
C3_OmittedIffRenderedEmpty ==
    IsSome(wire) =>
        (HasMember("vault_config") <=>
            service_accounts_string(Unwrap(payload).vault_service_accounts) # <<>>)

\* C3 amended: vault_config is on the wire exactly when the account list is
\* non-empty, whatever include_default is, and then carries the rendered
\* string: it is omitted for the default-constructed value and for a raw
\* override of "default", and present with an empty service_account_name
\* for a raw override of the empty string.
C3_OmittedIffNoAccounts ==
    IsSome(wire) =>
        LET v == Unwrap(payload).vault_service_accounts
            rendered == (IF v.include_default THEN S_default_comma ELSE <<>>)
                           \o CommaJoined(v.service_accounts)
        IN  /\ HasMember("vault_config") <=> v.service_accounts # <<>>
            /\ HasMember("vault_config") =>
                  MemberIs("vault_config", [service_account_name |-> rendered])
            /\ (args.svcac_raw = None /\ args.svcac = <<>>) => ~HasMember("vault_config")
            /\ args.svcac_raw = Some(S_default) => ~HasMember("vault_config")
            /\ args.svcac_raw = Some(S_empty) =>
                  MemberIs("vault_config", [service_account_name |-> <<>>])

C3_Witness ==
    /\ IsSome(wire)
    /\ args.svcac_raw = Some(S_default)
    /\ Unwrap(payload).vault_service_accounts =
          [include_default |-> TRUE, service_accounts |-> <<>>]
    /\ service_accounts_string(Unwrap(payload).vault_service_accounts) = S_default_comma
    /\ ~HasMember("vault_config")

\* ------------------------------------------------------------------- C11
\* Name arguments under product key "foo", each with what --strip-prefix is
\* to leave of it, written out by hand.
NameCases ==
    { [arg |-> S_bar, stripped |-> S_bar],
      [arg |-> <<"f", "o", "o", "-", "b", "a", "r">>, stripped |-> S_bar],
      [arg |-> S_foo, stripped |-> S_foo],
      [arg |-> <<"f", "o", "o", "b", "a", "r">>, stripped |-> <<"f", "o", "o", "b", "a", "r">>],
      [arg |-> <<"f", "o", "o", "-">>, stripped |-> <<>>] }

\* C11: the namespace of the payload is the name argument as given without
\* --strip-prefix; with it, the argument without a leading "<productkey>-",
\* and the argument unchanged when it does not start with that prefix.
C11_ExplicitName ==
    (args.productkey = Some(S_foo) /\ \E c \in NameCases : args.name = Some(c.arg)) =>
        LET c == CHOOSE c \in NameCases : args.name = Some(c.arg)
            expected == IF args.strip_prefix THEN c.stripped ELSE c.arg
        IN  /\ pc \notin {"parse", "name", "exited"} => name = Some(expected)
            /\ IsSome(payload) => Unwrap(payload).namespace = expected
            /\ IsSome(wire) => MemberIs("namespace", expected)

C11_Witness ==
    /\ IsSome(wire)
    /\ args.name = Some(<<"f", "o", "o", "-", "b", "a", "r">>)
    /\ args.strip_prefix
    /\ MemberIs("namespace", S_bar)

\* ------------------------------------------------------------------- C12
NamespacePosts == {i \in DOMAIN http : http[i].to = "namespace"}

BearerGranted(i) ==
    /\ http[i].to = "token"
    /\ http[i].response.sent
    /\ http[i].response.readable
    /\ http[i].response.status \in 200..299
    /\ IsSome(http[i].response.token)
    /\ Unwrap(http[i].response.token).type_ = "Bearer"

CredentialsReadable ==
    /\ IsSome(envv.SCOPE) /\ IsSome(envv.CLIENT_ID) /\ IsSome(envv.CLIENT_SECRET)
    /\ (Unwrap(envv.SCOPE).encoded => Unwrap(envv.SCOPE).decodes)

NamespaceCreated ==
    \E i \in NamespacePosts :
        /\ http[i].response.sent
        /\ http[i].response.status \in 200..299
        /\ http[i].response.readable
        /\ http[i].response.decodes

\* C12: the namespace endpoint is posted to at most once, and only after a
\* token request answered with success and a decodable Bearer token; with
\* unreadable credentials nothing is posted; the exit code is 0 only when
\* that POST returned success with a decodable body, and non-zero in every
\* other outcome of create.
C12_RequestOrder ==
    /\ Cardinality(NamespacePosts) <= 1
    /\ \A i \in NamespacePosts : \E j \in 1..(i - 1) : BearerGranted(j)
    /\ (\A j \in DOMAIN http : ~BearerGranted(j)) => NamespacePosts = {}
    /\ ~CredentialsReadable => http = <<>>
    /\ exit_code = Some(0) => NamespaceCreated
    /\ (pc = "exited" /\ IsSome(payload) /\ ~NamespaceCreated) =>
          (IsSome(exit_code) /\ Unwrap(exit_code) # 0)

C12_Witness ==
    /\ pc = "exited"
    /\ exit_code = Some(0)
    /\ Len(http) = 2
    /\ BearerGranted(1)
    /\ NamespacePosts = {2}
    /\ Len(stdout) = 1

====
